---- MODULE Spec2Model ----
(***************************************************************************)
(* A model of the keyword traffic projection core of src/app.py: the CTR   *)
(* curve, the rank estimator, the intent scorer, project_traffic and       *)
(* pivot_projection.                                                       *)
(*                                                                         *)
(* Units.  A click-through rate is an integer number of 1/10000 (0.285 is  *)
(* 2850).  An Estimated Traffic value, which the code rounds to one        *)
(* decimal, is an integer number of tenths (20.0 is 200).  The unrounded   *)
(* columns of the pivot table are exact fractions [num, den]; a float NaN  *)
(* is the value NaN.                                                       *)
(***************************************************************************)
EXTENDS Integers, Sequences, FiniteSets, TLC

VARIABLES
    pc,            \* position in the run
    df,            \* the input rows (project_traffic's df)
    months,        \* the number of projected months
    mode,          \* the improvement mode
    idx,           \* project_traffic: index of the row being processed
    difficulty,    \* the difficulty of the current row / call
    is_cluster,    \* the cluster flag of the current row / call
    ranks,         \* the trajectory returned by estimate_rank_with_cluster
    max_rank,      \* project_traffic: determine_max_rank of the current row
    month_idx,     \* project_traffic: months recorded for the current row
    prev_traffic,  \* project_traffic: prev_traffic
    plateau_hit,   \* project_traffic: plateau_hit
    projections,   \* project_traffic: the records appended so far
    pivot,         \* pivot_projection: the page table
    rank_args,     \* get_ctr_dynamic: the two ranks called with
    ctr_vals       \* get_ctr_dynamic: the two values returned

vars == <<pc, df, months, mode, idx, difficulty, is_cluster, ranks, max_rank,
          month_idx, prev_traffic, plateau_hit, projections, pivot,
          rank_args, ctr_vals>>

----------------------------------------------------------------------------
(* Bounds and input sets *)

MaxMonths == 12
MaxRows == 3
MaxRankArg == 90
MaxDifficulty == 100

Modes == {"Conservative", "Average", "Aggressive"}

Max(a, b) == IF a >= b THEN a ELSE b

\* Python None (prev_traffic before the first month); every traffic value
\* is >= 0, so it is distinct from all of them.
None == -1

----------------------------------------------------------------------------
(* get_ctr_dynamic, in units of 1/10000 *)

\* the curve with the 11..20 bracket raised above rank 10
get_ctr_dynamic_bracket_slip(rank) ==
    IF rank = 1 THEN 2850
    ELSE IF rank = 2 THEN 1570
    ELSE IF rank = 3 THEN 1100
    ELSE IF rank = 4 THEN 800
    ELSE IF rank = 5 THEN 630
    ELSE IF rank = 6 THEN 470
    ELSE IF rank = 7 THEN 380
    ELSE IF rank = 8 THEN 310
    ELSE IF rank = 9 THEN 260
    ELSE IF rank = 10 THEN 240
    ELSE IF 11 <= rank /\ rank <= 20 THEN 300
    ELSE IF 21 <= rank /\ rank <= 30 THEN 100
    ELSE IF 31 <= rank /\ rank <= 50 THEN 50
    ELSE 25

\* the curve with the last bracket returning 0
get_ctr_dynamic_zero_tail(rank) ==
    IF rank = 1 THEN 2850
    ELSE IF rank = 2 THEN 1570
    ELSE IF rank = 3 THEN 1100
    ELSE IF rank = 4 THEN 800
    ELSE IF rank = 5 THEN 630
    ELSE IF rank = 6 THEN 470
    ELSE IF rank = 7 THEN 380
    ELSE IF rank = 8 THEN 310
    ELSE IF rank = 9 THEN 260
    ELSE IF rank = 10 THEN 240
    ELSE IF 11 <= rank /\ rank <= 20 THEN 200
    ELSE IF 21 <= rank /\ rank <= 30 THEN 100
    ELSE IF 31 <= rank /\ rank <= 50 THEN 50
    ELSE 0

get_ctr_dynamic(rank) ==
    IF rank = 1 THEN 2850
    ELSE IF rank = 2 THEN 1570
    ELSE IF rank = 3 THEN 1100
    ELSE IF rank = 4 THEN 800
    ELSE IF rank = 5 THEN 630
    ELSE IF rank = 6 THEN 470
    ELSE IF rank = 7 THEN 380
    ELSE IF rank = 8 THEN 310
    ELSE IF rank = 9 THEN 260
    ELSE IF rank = 10 THEN 240
    ELSE IF 11 <= rank /\ rank <= 20 THEN 200
    ELSE IF 21 <= rank /\ rank <= 30 THEN 100
    ELSE IF 31 <= rank /\ rank <= 50 THEN 50
    ELSE 25

----------------------------------------------------------------------------
(* determine_max_rank *)

determine_max_rank(d) ==
    IF d <= 20 THEN 3
    ELSE IF d <= 40 THEN 5
    ELSE IF d <= 60 THEN 10
    ELSE IF d <= 80 THEN 20
    ELSE 30

----------------------------------------------------------------------------
(* estimate_rank_with_cluster *)

\* the starting rank of a difficulty bracket
StartRank(d) ==
    IF d < 20 THEN 30
    ELSE IF d < 40 THEN 40
    ELSE IF d < 60 THEN 60
    ELSE 80

\* the four step sizes of a mode, one more each with the cluster boost
Improvements(m, boost) ==
    LET base == IF m = "Conservative"
                  THEN [fast |-> 4, medium |-> 2, slow |-> 1, very_slow |-> 1]
                ELSE IF m = "Aggressive"
                  THEN [fast |-> 12, medium |-> 6, slow |-> 3, very_slow |-> 2]
                ELSE [fast |-> 8, medium |-> 4, slow |-> 2, very_slow |-> 1]
        b == IF boost THEN 1 ELSE 0
    IN  [fast |-> base.fast + b, medium |-> base.medium + b,
         slow |-> base.slow + b, very_slow |-> base.very_slow + b]

\* every tier taking the fast step
RankImprovementAlwaysFast(current_rank, imp) == imp.fast

\* the step of the tier the current rank is in
RankImprovement(current_rank, imp) ==
    IF current_rank > 50 THEN imp.fast
    ELSE IF current_rank > 20 THEN imp.medium
    ELSE IF current_rank > 10 THEN imp.slow
    ELSE imp.very_slow

\* one month without the clamp to the difficulty floor
NextRankNoFloor(current_rank, imp, floor) ==
    Max(1, current_rank - RankImprovement(current_rank, imp))

\* one month with the floor applied before the improvement instead of after
NextRankFloorFirst(current_rank, imp, floor) ==
    Max(1, Max(current_rank, floor) - RankImprovement(current_rank, imp))

\* one month of the loop: improve, clamp to 1, clamp to the floor
NextRank(current_rank, imp, floor) ==
    Max(Max(1, current_rank - RankImprovement(current_rank, imp)), floor)

RECURSIVE RankLoop(_, _, _, _)
RankLoop(current_rank, imp, floor, n) ==
    IF n = 0 THEN <<>>
    ELSE LET r == NextRank(current_rank, imp, floor)
         IN  <<r>> \o RankLoop(r, imp, floor, n - 1)

estimate_rank_with_cluster(d, n, m, boost) ==
    RankLoop(StartRank(d), Improvements(m, boost), determine_max_rank(d), n)

----------------------------------------------------------------------------
(* map_intent_score *)

\* An intent string is a sequence of tokens: a label word, "," or " ".
\* A missing value (pd.isna) is the cell read_csv turns into NaN.
MissingIntent == <<"NaN">>

RECURSIVE LStrip(_)
LStrip(s) == IF s # <<>> /\ Head(s) = " " THEN LStrip(Tail(s)) ELSE s

RECURSIVE RStrip(_)
RStrip(s) ==
    IF s # <<>> /\ s[Len(s)] = " " THEN RStrip(SubSeq(s, 1, Len(s) - 1)) ELSE s

\* str.strip()
Strip(s) == RStrip(LStrip(s))

\* str.split(","): the segments between the commas, empty ones included
RECURSIVE Split(_)
Split(s) ==
    IF \A i \in DOMAIN s : s[i] # "," THEN <<s>>
    ELSE LET k == CHOOSE i \in DOMAIN s :
                      s[i] = "," /\ \A j \in 1..(i - 1) : s[j] # ","
         IN  <<SubSeq(s, 1, k - 1)>> \o Split(SubSeq(s, k + 1, Len(s)))

\* priority.get(i, 0)
Priority(label) ==
    IF label = <<"Transactional">> THEN 100
    ELSE IF label = <<"Commercial">> THEN 80
    ELSE IF label = <<"Informational">> THEN 50
    ELSE IF label = <<"Navigational">> THEN 20
    ELSE 0

\* the best_score loop over the stripped segments
RECURSIVE BestScore(_, _)
BestScore(intents, best_score) ==
    IF intents = <<>> THEN best_score
    ELSE LET score == Priority(Strip(Head(intents)))
         IN  BestScore(Tail(intents),
                       IF score > best_score THEN score ELSE best_score)

\* an unresolved intent scoring 0 instead of None
map_intent_score_zero(intent) ==
    IF intent = MissingIntent \/ Strip(intent) = <<>> THEN 0
    ELSE BestScore(Split(intent), 0)

map_intent_score(intent) ==
    IF intent = MissingIntent \/ Strip(intent) = <<>> THEN None
    ELSE LET best_score == BestScore(Split(intent), 0)
         IN  IF best_score > 0 THEN best_score ELSE None

----------------------------------------------------------------------------
(* project_traffic *)

\* A missing Cluster Group cell (NaN after read_csv)
MissingCluster == "NaN"

Rows(d) == {d[i] : i \in DOMAIN d}

\* df.groupby('Cluster Group')['Assigned Page'].nunique().to_dict();
\* groupby drops the rows whose key is missing
cluster_page_counts(d) ==
    [c \in {r.cluster : r \in Rows(d)} \ {MissingCluster} |->
        Cardinality({r.page : r \in {x \in Rows(d) : x.cluster = c}})]

\* cluster and cluster_page_counts.get(cluster, 0) >= 3, as a truth value
\* (a missing value is truthy, an empty string is not)
IsCluster(d, cluster) ==
    LET counts == cluster_page_counts(d)
    IN  /\ cluster # ""
        /\ (IF cluster \in DOMAIN counts THEN counts[cluster] ELSE 0) >= 3

\* The (volume, ctr) pairs of the model's volumes whose exact product lies
\* halfway between two tenths and whose double product rounds up; on the
\* other halfway pairs of these volumes the double product rounds down.
TieRoundsUp == {<<10, 50>>, <<20, 25>>, <<50, 470>>, <<50, 310>>}

\* round(volume * ctr, 1) in tenths
round_traffic(volume, ctr) ==
    LET p == volume * ctr
        q == p \div 1000
        r == p % 1000
    IN  IF r > 500 \/ (r = 500 /\ <<volume, ctr>> \in TieRoundsUp)
        THEN q + 1 ELSE q

\* prev_traffic assigned in the first month only
CarryForwardStale(hit, prev, est) ==
    IF hit THEN [est_traffic |-> prev, prev_traffic |-> prev]
    ELSE [est_traffic |-> est,
          prev_traffic |-> IF prev = None THEN est ELSE prev]

\* if plateau_hit: est_traffic = prev_traffic / else: prev_traffic = est_traffic
CarryForward(hit, prev, est) ==
    IF hit THEN [est_traffic |-> prev, prev_traffic |-> prev]
    ELSE [est_traffic |-> est, prev_traffic |-> est]

\* the per-row head of the loop: the row's flag, trajectory and floor
ProjectRow ==
    /\ pc = "row"
    /\ idx < Len(df)
    /\ LET row == df[idx + 1]
           boost == IsCluster(df, row.cluster)
       IN  /\ idx' = idx + 1
           /\ difficulty' = row.difficulty
           /\ is_cluster' = boost
           /\ ranks' = estimate_rank_with_cluster(row.difficulty, months,
                                                  mode, boost)
           /\ max_rank' = determine_max_rank(row.difficulty)
    /\ prev_traffic' = None
    /\ plateau_hit' = FALSE
    /\ month_idx' = 0
    /\ pc' = "month"
    /\ UNCHANGED <<df, months, mode, projections, pivot, rank_args, ctr_vals>>

\* one iteration of the loop over the row's trajectory
ProjectMonth ==
    /\ pc = "month"
    /\ month_idx < Len(ranks)
    /\ LET row == df[idx]
           est_rank == ranks[month_idx + 1]
           ctr == get_ctr_dynamic(est_rank)
           c == CarryForward(plateau_hit, prev_traffic,
                             round_traffic(row.volume, ctr))
       IN  /\ prev_traffic' = c.prev_traffic
           /\ plateau_hit' = (plateau_hit \/ est_rank = max_rank)
           /\ projections' = Append(projections,
                  [page |-> row.page, month |-> month_idx + 1,
                   traffic |-> c.est_traffic, difficulty |-> row.difficulty,
                   intent |-> row.intent, cluster |-> row.cluster])
    /\ month_idx' = month_idx + 1
    /\ pc' = IF month_idx + 1 = Len(ranks) THEN "row" ELSE "month"
    /\ UNCHANGED <<df, months, mode, idx, difficulty, is_cluster, ranks,
                   max_rank, pivot, rank_args, ctr_vals>>

\* return pd.DataFrame(projections)
ProjectReturn ==
    /\ pc = "row"
    /\ idx = Len(df)
    /\ pc' = "pivot"
    /\ UNCHANGED <<df, months, mode, idx, difficulty, is_cluster, ranks,
                   max_rank, month_idx, prev_traffic, plateau_hit,
                   projections, pivot, rank_args, ctr_vals>>

----------------------------------------------------------------------------
(* pivot_projection *)

RECURSIVE Gcd(_, _)
Gcd(a, b) == IF b = 0 THEN a ELSE Gcd(b, a % b)

\* an exact fraction n / d (d > 0) in lowest terms, and the float NaN
Frac(n, d) ==
    LET g == Gcd(IF n < 0 THEN -n ELSE n, d)
    IN  [nan |-> FALSE, num |-> n \div g, den |-> d \div g]
NaN == [nan |-> TRUE, num |-> 0, den |-> 1]

RECURSIVE SumSeq(_)
SumSeq(s) == IF s = <<>> THEN 0 ELSE Head(s) + SumSeq(Tail(s))

\* the records of one page, in order
PageRecords(proj, p) == SelectSeq(proj, LAMBDA r : r.page = p)

\* the pivot_table cell: the page's traffic summed over month m, 0 if none
MonthCell(proj, p, m) ==
    LET recs == SelectSeq(proj, LAMBDA r : r.page = p /\ r.month = m)
    IN  SumSeq([i \in DOMAIN recs |-> recs[i].traffic])

\* pivot.sum(axis=1): the month cells of the page summed, which is the sum
\* of the page's records, each record lying in exactly one month column
CumulativeTotal(proj, p) ==
    LET recs == PageRecords(proj, p)
    IN  SumSeq([i \in DOMAIN recs |-> recs[i].traffic])

\* groupby("Assigned Page")["Difficulty"].mean()
AvgDifficulty(proj, p) ==
    LET recs == PageRecords(proj, p)
    IN  Frac(SumSeq([i \in DOMAIN recs |-> recs[i].difficulty]), Len(recs))

\* the lambda of line 184: the scores that are not None, summed, over
\* max(their number, 1)
AvgIntentScore(proj, p) ==
    LET recs == PageRecords(proj, p)
        scores == [i \in DOMAIN recs |-> map_intent_score(recs[i].intent)]
        kept == SelectSeq(scores, LAMBDA x : x # None)
    IN  Frac(SumSeq(kept), Max(Len(kept), 1))

\* (Cumulative Total / Cumulative Total.max()) * 100; 0.0 / 0.0 is NaN
TrafficScore(cum, max_cum) ==
    IF max_cum = 0 /\ cum = 0 THEN NaN ELSE Frac(100 * cum, max_cum)

\* 100 - Difficulty
EaseScore(avg_difficulty) ==
    Frac(100 * avg_difficulty.den - avg_difficulty.num, avg_difficulty.den)

\* round(1) of the fraction num / den, in tenths; a value halfway between
\* two tenths goes up or down as the double that holds it falls
RoundTenths(num, den, tie_up) ==
    LET q == (10 * num) \div den
        r == (10 * num) % den
    IN  IF 2 * r > den \/ (2 * r = den /\ tie_up) THEN q + 1 ELSE q

\* Traffic Score * 0.5 + Ease Score * 0.25 + Intent Score * 0.25, unrounded
RawPageScore(ts, ease, intent) ==
    IF ts.nan THEN NaN
    ELSE LET quarters == Frac(ease.num * intent.den + intent.num * ease.den,
                              4 * ease.den * intent.den)
         IN  Frac(ts.num * quarters.den + 2 * ts.den * quarters.num,
                  2 * ts.den * quarters.den)

\* pivot.round(1) on the Final Page Score column
FinalPageScore(score, tie_up) ==
    IF score.nan THEN NaN
    ELSE Frac(RoundTenths(score.num, score.den, tie_up), 10)

\* The page table before round(1).  Traffic Score, Ease Score and Intent
\* Score are columns of the table of lines 190-198 that keep_cols drops from
\* the returned frame.
PivotTable(proj, n) ==
    LET pages == {proj[i].page : i \in DOMAIN proj}
        cum == [p \in pages |-> CumulativeTotal(proj, p)]
        max_cum == CHOOSE c \in {cum[p] : p \in pages} :
                       \A p \in pages : cum[p] <= c
    IN  [p \in pages |->
           LET ts == TrafficScore(cum[p], max_cum)
               ease == EaseScore(AvgDifficulty(proj, p))
               intent == AvgIntentScore(proj, p)
           IN  [month |-> [m \in 1..n |-> MonthCell(proj, p, m)],
                cumulative_total |-> cum[p],
                traffic_score |-> ts,
                ease_score |-> ease,
                intent_score |-> intent,
                final_page_score |-> RawPageScore(ts, ease, intent)]]

\* the pages whose unrounded score lies halfway between two tenths
TiePages(table) ==
    {p \in DOMAIN table :
        LET x == table[p].final_page_score
        IN  ~x.nan /\ 2 * ((10 * x.num) % x.den) = x.den}

PivotProjection ==
    /\ pc = "pivot"
    /\ LET table == PivotTable(projections, months)
       IN  \E ups \in SUBSET TiePages(table) :
               pivot' = [p \in DOMAIN table |->
                           [table[p] EXCEPT !.final_page_score =
                               FinalPageScore(@, p \in ups)]]
    /\ pc' = "done"
    /\ UNCHANGED <<df, months, mode, idx, difficulty, is_cluster, ranks,
                   max_rank, month_idx, prev_traffic, plateau_hit,
                   projections, rank_args, ctr_vals>>

----------------------------------------------------------------------------
(* The calls of the two pure functions on their own *)

\* get_ctr_dynamic called on two ranks
CtrCall ==
    /\ pc = "ctr"
    /\ ctr_vals' = <<get_ctr_dynamic(rank_args[1]),
                     get_ctr_dynamic(rank_args[2])>>
    /\ pc' = "ctr_done"
    /\ UNCHANGED <<df, months, mode, idx, difficulty, is_cluster, ranks,
                   max_rank, month_idx, prev_traffic, plateau_hit,
                   projections, pivot, rank_args>>

\* estimate_rank_with_cluster called on its own
EstimateCall ==
    /\ pc = "estimate"
    /\ ranks' = estimate_rank_with_cluster(difficulty, months, mode,
                                           is_cluster)
    /\ pc' = "estimated"
    /\ UNCHANGED <<df, months, mode, idx, difficulty, is_cluster, max_rank,
                   month_idx, prev_traffic, plateau_hit, projections, pivot,
                   rank_args, ctr_vals>>

----------------------------------------------------------------------------
(* Inputs and specifications *)

\* the state before any call, with the inputs left to the specification
Idle ==
    /\ idx = 0
    /\ ranks = <<>>
    /\ max_rank = 0
    /\ month_idx = 0
    /\ prev_traffic = None
    /\ plateau_hit = FALSE
    /\ projections = <<>>
    /\ pivot = <<>>
    /\ ctr_vals = <<>>

NoRows ==
    /\ df = <<>>
    /\ rank_args = <<>>

\* get_ctr_dynamic on every pair of ranks
InitCtr ==
    /\ pc = "ctr"
    /\ rank_args \in (1..MaxRankArg) \X (1..MaxRankArg)
    /\ df = <<>>
    /\ months = 1
    /\ mode = "Average"
    /\ difficulty = 0
    /\ is_cluster = FALSE
    /\ Idle

SpecCtr == InitCtr /\ [][CtrCall]_vars

\* estimate_rank_with_cluster on every difficulty, mode, flag, month count
InitRank ==
    /\ pc = "estimate"
    /\ difficulty \in 0..MaxDifficulty
    /\ months \in 1..MaxMonths
    /\ mode \in Modes
    /\ is_cluster \in BOOLEAN
    /\ NoRows
    /\ Idle

SpecRank == InitRank /\ [][EstimateCall]_vars

Next == ProjectRow \/ ProjectMonth \/ ProjectReturn \/ PivotProjection

Row(p, v, d, i, c) ==
    [page |-> p, volume |-> v, difficulty |-> d, intent |-> i, cluster |-> c]

Volumes == {0, 10, 20, 50, 1000, 2000}

\* One keyword of every difficulty and volume, alone or with two more pages
\* of its cluster group.
TrafficFrames ==
    {<<Row("p1", v, d, <<"Commercial">>, "A")>> \o rest :
        v \in Volumes, d \in 0..MaxDifficulty,
        rest \in {<<>>, <<Row("p2", 1000, 50, MissingIntent, "A"),
                          Row("p3", 1000, 90, MissingIntent, "A")>>}}

InitTraffic ==
    /\ pc = "row"
    /\ df \in TrafficFrames
    /\ months \in 1..MaxMonths
    /\ mode \in Modes
    /\ difficulty = 0
    /\ is_cluster = FALSE
    /\ rank_args = <<>>
    /\ Idle

SpecTraffic == InitTraffic /\ [][Next]_vars

Pages == {"p1", "p2", "p3"}

\* the frames of 1..MaxRows rows drawn from a set of rows
Frames(rows) == UNION {[1..n -> rows] : n \in 1..MaxRows}

\* Keywords that differ in page and Cluster Group only.
ClusterGroups == {MissingCluster, "No Cluster", "A"}

InitCluster ==
    /\ pc = "row"
    /\ df \in Frames({Row(p, 1000, 50, <<"Commercial">>, c) :
                         p \in Pages, c \in ClusterGroups})
    /\ months \in {1, 2}
    /\ mode = "Average"
    /\ difficulty = 0
    /\ is_cluster = FALSE
    /\ rank_args = <<>>
    /\ Idle

SpecCluster == InitCluster /\ [][Next]_vars

\* Keywords that differ in page and intent only.
Intents ==
    {<<>>, <<" ">>, MissingIntent, <<"Unknown">>, <<"Transactional">>,
     <<"Informational", ",", " ", "Commercial">>,
     <<"Unknown", ",", "Navigational", " ">>,
     <<"Commercial", " ", "Commercial">>}

InitIntent ==
    /\ pc = "row"
    /\ df \in Frames({Row(p, 1000, 50, i, MissingCluster) :
                         p \in {"p1", "p2"}, i \in Intents})
    /\ months \in {1, 2}
    /\ mode = "Average"
    /\ difficulty = 0
    /\ is_cluster = FALSE
    /\ rank_args = <<>>
    /\ Idle

SpecIntent == InitIntent /\ [][Next]_vars

\* Keywords that differ in page, volume, difficulty and intent.
InitScore ==
    /\ pc = "row"
    /\ df \in Frames({Row(p, v, d, i, MissingCluster) :
                         p \in {"p1", "p2"}, v \in {0, 1000, 2000},
                         d \in {10, 60},
                         i \in {MissingIntent, <<"Transactional">>}})
    /\ months = 1
    /\ mode = "Average"
    /\ difficulty = 0
    /\ is_cluster = FALSE
    /\ rank_args = <<>>
    /\ Idle

SpecScore == InitScore /\ [][Next]_vars

----------------------------------------------------------------------------
(* Properties *)

\* the record of month m of the row being processed
Rec(m) == projections[(idx - 1) * months + m]

\* the months of the current row recorded so far
Recorded == IF idx = 0 THEN {} ELSE 1..month_idx

\* the month at which the current row's rank first equals its floor
FirstPlateau(m) ==
    /\ ranks[m] = determine_max_rank(df[idx].difficulty)
    /\ \A k \in 1..(m - 1) : ranks[k] # determine_max_rank(df[idx].difficulty)

\* C1: the trajectory estimate_rank_with_cluster returns has one rank per
\* month, never rises from one month to the next, never goes below
\* determine_max_rank(difficulty), and stays at that floor once it is there.
C1_TrajectoryConverges ==
    pc = "estimated" =>
        LET floor == determine_max_rank(difficulty)
        IN  /\ Len(ranks) = months
            /\ \A i \in 1..(Len(ranks) - 1) : ranks[i + 1] <= ranks[i]
            /\ \A i \in DOMAIN ranks : ranks[i] >= floor
            /\ \A i \in DOMAIN ranks : \A j \in DOMAIN ranks :
                   (i < j /\ ranks[i] = floor) => ranks[j] = floor

\* a trajectory that falls to the floor and is held there by the clamp
C1_Witness ==
    /\ pc = "estimated"
    /\ is_cluster
    /\ Len(ranks) >= 3
    /\ ranks[1] > ranks[2]
    /\ ranks[Len(ranks) - 1] = determine_max_rank(difficulty)
    /\ ranks[Len(ranks)] = determine_max_rank(difficulty)
    /\ ranks[Len(ranks) - 1] - RankImprovement(ranks[Len(ranks) - 1],
                                   Improvements(mode, is_cluster)) >= 1

\* C2: once a month's rank of the current row first equals the row's floor,
\* every later month of the row records the traffic of that month.
C2_PlateauCarryForward ==
    \A m0 \in Recorded : FirstPlateau(m0) =>
        \A m \in Recorded : m > m0 => Rec(m).traffic = Rec(m0).traffic

\* a row with months recorded before and after its first plateau month
C2_Witness ==
    /\ idx >= 1
    /\ \E m0 \in Recorded :
           /\ FirstPlateau(m0)
           /\ m0 > 1
           /\ m0 + 2 \in Recorded
           /\ Rec(m0).traffic > Rec(1).traffic
           /\ Rec(m0 + 2).traffic = Rec(m0).traffic

\* C3 as stated: difficulty 15, Average, no boost, 3 months gives [22, 14, 6].
C3_AsStated ==
    (pc = "estimated" /\ difficulty = 15 /\ mode = "Average"
        /\ ~is_cluster /\ months = 3)
    => (StartRank(15) = 30 /\ determine_max_rank(15) = 3
        /\ ranks = <<22, 14, 6>>)

\* C3, amended: difficulty 15, Average, no boost, 3 months starts from rank
\* 30 with floor 3 and gives [26, 22, 18]: ranks 30, 26 and 22 are in the
\* medium tier (above 20, not above 50), whose Average step is 4.
C3_Trajectory ==
    (pc = "estimated" /\ difficulty = 15 /\ mode = "Average"
        /\ ~is_cluster /\ months = 3)
    => (StartRank(15) = 30 /\ determine_max_rank(15) = 3
        /\ ranks = <<26, 22, 18>>)

C3_Witness ==
    /\ pc = "estimated"
    /\ difficulty = 15
    /\ mode = "Average"
    /\ ~is_cluster
    /\ months = 3
    /\ Len(ranks) = 3

\* the unrounded score halved, rounded either way on a tie
Halved(score, final) ==
    IF score.nan THEN final.nan
    ELSE \E tie_up \in BOOLEAN :
             final = FinalPageScore(Frac(score.num, 2 * score.den), tie_up)

\* C4: a page whose Cumulative Total is below 10 is reported with half the
\* score 0.5 * Traffic Score + 0.25 * Ease Score + 0.25 * Intent Score.
C4_LowTrafficHalved ==
    pc = "done" =>
        \A p \in DOMAIN pivot :
            pivot[p].cumulative_total < 100 =>
                Halved(RawPageScore(pivot[p].traffic_score,
                                    pivot[p].ease_score,
                                    pivot[p].intent_score),
                       pivot[p].final_page_score)

\* C5: when the largest Cumulative Total is 0, every page has Traffic Score
\* 0 and the numeric Final Page Score 0.25 * Ease + 0.25 * Intent.
C5_ZeroMaximumDefined ==
    (pc = "done" /\ \A p \in DOMAIN pivot : pivot[p].cumulative_total = 0)
    => \A p \in DOMAIN pivot :
           /\ pivot[p].traffic_score = Frac(0, 1)
           /\ ~pivot[p].final_page_score.nan
           /\ \E tie_up \in BOOLEAN :
                  pivot[p].final_page_score =
                      FinalPageScore(RawPageScore(Frac(0, 1),
                                                  pivot[p].ease_score,
                                                  pivot[p].intent_score),
                                     tie_up)

\* the distinct Assigned Pages of the rows of a Cluster Group
GroupPages(c) == {df[i].page : i \in {j \in DOMAIN df : df[j].cluster = c}}

\* C6: the current row is boosted exactly when it has a Cluster Group other
\* than "No Cluster" and that group has at least 3 distinct Assigned Pages.
C6_BoostEligibility ==
    idx >= 1 =>
        (is_cluster <=>
            /\ df[idx].cluster # MissingCluster
            /\ df[idx].cluster # "No Cluster"
            /\ Cardinality(GroupPages(df[idx].cluster)) >= 3)

\* the labels of an intent string: its comma-separated parts, trimmed
Labels(intent) ==
    IF intent = MissingIntent THEN {}
    ELSE {Strip(Split(intent)[i]) : i \in DOMAIN Split(intent)}

\* the scores of the recognized labels of an intent string
LabelScores(intent) == {Priority(l) : l \in Labels(intent)} \ {0}

\* the score an intent resolves to, when LabelScores is not empty
Resolved(intent) ==
    CHOOSE x \in LabelScores(intent) : \A y \in LabelScores(intent) : y <= x

\* the records of page p whose intent resolves to a score
ResolvedRecords(p) ==
    SelectSeq(projections,
              LAMBDA r : r.page = p /\ LabelScores(r.intent) # {})

\* C7: a page's average intent score is the mean of the scores of its
\* records whose intent resolves, and 0 when none does; the page with
\* intents "", "Unknown" and "Transactional" has average 100.
C7_IntentMeanExcludesUnresolved ==
    pc = "done" =>
        \A p \in DOMAIN pivot :
            LET recs == ResolvedRecords(p)
                total == SumSeq([i \in DOMAIN recs |->
                                    Resolved(recs[i].intent)])
                avg == pivot[p].intent_score
            IN  /\ ~avg.nan
                /\ recs = <<>> => avg.num = 0
                /\ recs # <<>> => avg.num * Len(recs) = total * avg.den
                /\ {df[i].intent : i \in {j \in DOMAIN df : df[j].page = p}}
                       = {<<>>, <<"Unknown">>, <<"Transactional">>}
                   => avg = Frac(100, 1)

\* the page of the three intents "", "Unknown", "Transactional", and a page
\* none of whose intents resolves
C7_Witness ==
    /\ pc = "done"
    /\ Len(df) = 3
    /\ \A i \in DOMAIN df : df[i].page = "p1"
    /\ {df[i].intent : i \in DOMAIN df}
           = {<<>>, <<"Unknown">>, <<"Transactional">>}
    /\ pivot["p1"].intent_score = Frac(100, 1)

\* C8: of two ranks >= 1 the smaller has the CTR that is at least as large,
\* and every CTR lies in (0, 1].
C8_CtrMonotone ==
    pc = "ctr_done" =>
        /\ rank_args[1] < rank_args[2] => ctr_vals[1] >= ctr_vals[2]
        /\ \A i \in {1, 2} : 0 < ctr_vals[i] /\ ctr_vals[i] <= 10000

\* a call on a top-ten rank and on a rank of the last bracket
C8_Witness ==
    /\ pc = "ctr_done"
    /\ rank_args[1] <= 10
    /\ rank_args[2] > 50
    /\ ctr_vals[1] > ctr_vals[2]

\* C9: every month of the current row records
\* round(volume * get_ctr_dynamic(that month's rank), 1), whether or not the
\* plateau has been hit.
C9_FreezeChangesNothing ==
    \A m \in Recorded :
        Rec(m).traffic =
            round_traffic(df[idx].volume, get_ctr_dynamic(ranks[m]))

\* a month recorded from prev_traffic after the plateau month
C9_Witness ==
    /\ idx >= 1
    /\ plateau_hit
    /\ month_idx = months
    /\ df[idx].volume = 1000
    /\ \E m \in Recorded : FirstPlateau(m) /\ m < month_idx
    /\ Rec(month_idx).traffic = prev_traffic
    /\ prev_traffic > 0

\* C10: the traffic recorded for the current row is never negative and never
\* drops from one month to the next.
C10_TrafficNonDecreasing ==
    \A m \in Recorded :
        /\ Rec(m).traffic >= 0
        /\ m > 1 => Rec(m - 1).traffic <= Rec(m).traffic

\* a row whose traffic grows as its rank passes from 11..20 into the top ten
C10_Witness ==
    /\ idx >= 1
    /\ \E m \in Recorded :
           /\ m > 1
           /\ ranks[m - 1] > 10
           /\ ranks[m] <= 10
           /\ Rec(m - 1).traffic < Rec(m).traffic

====
